---- MODULE Spec2Model ----
(***************************************************************************)
(* A model of the World class of src/src/world.ts: the player registry,    *)
(* the three promise-memoizing cache slots (overview, lists, logs),        *)
(* setLists, and the handlers the constructor subscribes to the            *)
(* ChatWatcher.                                                            *)
(*                                                                         *)
(* Strings are sequences of one-character strings, so that                 *)
(* toLocaleUpperCase is computed character by character.  JavaScript       *)
(* object identity is modelled by a heap: an array lives at an address and *)
(* an object holds addresses, so that a shallow copy shares the arrays of  *)
(* its original and a deep copy does not.  A promise is a record of        *)
(* `fetches`; the cache slots hold indices into it.                        *)
(***************************************************************************)
EXTENDS Integers, Sequences, FiniteSets, TLC

VARIABLES
    players,      \* this._players: key -> PlayerInfo
    players0,     \* what storage.get('mb_players', {}) returned (never changes)
    online,       \* this._online, the array shared with the ChatWatcher
    lists,        \* this._lists: a reference to a WorldLists object
    cache,        \* this._cache: slot -> index of the promise it holds, 0 if unset
    fetches,      \* the promises created by the get operations, in creation order,
                  \* each with the state of the promise it replaced in its slot
    heap,         \* address -> contents of the array at that address
    clients,      \* the callers of the public operations: where each is, the
                  \* promise it awaits and the value it was given
    remoteLists,  \* the lists as the server holds them (behind this._api)
    lastSubmit,   \* the client whose api.setLists was the last to succeed, 0 if none
    joinLog,      \* the join events the ChatWatcher has emitted, in order
    commands,     \* this._commands: token -> listener
    recent,       \* the last two events the ChatWatcher has emitted, oldest first
    out,          \* what the handler of the latest of them did, in order: the
                  \* events it dispatched, the listener it called, what it threw
    ret           \* what the last call of getPlayer, addCommand or removeCommand
                  \* returned or threw

vars == <<players, players0, online, lists, cache, fetches, heap, clients,
          remoteLists, lastSubmit, joinLog, commands, recent, out, ret>>

\* the part of the state only the event handlers and the synchronous calls write
chat == <<commands, recent, out, ret>>

---------------------------------------------------------------------------
(* Bounds of the model *)

MaxJoins == 3
MaxFetches == 3
MaxLen == 2

Clients == {1, 2}

---------------------------------------------------------------------------
(* Strings *)

\* the upper-case form of the letters a to z
UpperOf ==
    "a" :> "A" @@ "b" :> "B" @@ "c" :> "C" @@ "d" :> "D" @@ "e" :> "E" @@ "f" :> "F" @@
    "g" :> "G" @@ "h" :> "H" @@ "i" :> "I" @@ "j" :> "J" @@ "k" :> "K" @@ "l" :> "L" @@
    "m" :> "M" @@ "n" :> "N" @@ "o" :> "O" @@ "p" :> "P" @@ "q" :> "Q" @@ "r" :> "R" @@
    "s" :> "S" @@ "t" :> "T" @@ "u" :> "U" @@ "v" :> "V" @@ "w" :> "W" @@ "x" :> "X" @@
    "y" :> "Y" @@ "z" :> "Z"

\* every other character of the texts modelled has no upper-case form of its own
UpperChar(c) == IF c \in DOMAIN UpperOf THEN UpperOf[c] ELSE c

toLocaleUpperCase(s) == [i \in DOMAIN s |-> UpperChar(s[i])]

St == <<"S", "t">>
ST == <<"S", "T">>
st == <<"s", "t">>
BO == <<"B", "O">>
Bo == <<"B", "o">>
XX == <<"X", "X">>

\* the names the ChatWatcher reports in events
Names == {St, ST, BO}
\* the names callers ask getPlayer about
QueryNames == {St, ST, st, BO, Bo, XX}
\* the addresses the ChatWatcher reports
Addresses == {"1.1", "2.2"}

Includes(seq, x) == \E i \in DOMAIN seq : seq[i] = x
Elems(seq) == {seq[i] : i \in DOMAIN seq}
NoDuplicates(seq) == \A i, j \in DOMAIN seq : seq[i] = seq[j] => i = j

RECURSIVE Without(_, _)
Without(seq, x) ==
    IF seq = << >> THEN << >>
    ELSE IF Head(seq) = x THEN Without(Tail(seq), x)
    ELSE <<Head(seq)>> \o Without(Tail(seq), x)

\* arr.push(x) for each x of xs, present or not
PushAll(arr, xs) == arr \o xs

\* arr.includes(x) || arr.push(x), for each x of xs in order
RECURSIVE PushMissing(_, _)
PushMissing(arr, xs) ==
    IF xs = << >> THEN arr
    ELSE PushMissing(IF Includes(arr, Head(xs)) THEN arr ELSE Append(arr, Head(xs)),
                     Tail(xs))

\* obj[k] = v on an object modelled as a function
Put(obj, k, v) == [x \in DOMAIN obj \cup {k} |-> IF x = k THEN v ELSE obj[x]]

---------------------------------------------------------------------------
(* The player registry *)

ZeroInfo == [ip |-> "", ips |-> << >>, joins |-> 0, owner |-> FALSE]

\* storage.get('mb_players', {}): nothing stored, or the registry of an earlier run
StoredRegistries ==
    { << >>,
      (BO :> [ip |-> "1.1", ips |-> <<"1.1">>, joins |-> 1, owner |-> FALSE]) }

\* a getPlayer that reads the registry as it was loaded from storage
getPlayerStale(name) ==
    LET n == toLocaleUpperCase(name)
    IN  [name  |-> n,
         info  |-> IF n \in DOMAIN players0 THEN players0[n] ELSE ZeroInfo,
         rec   |-> IF n \in DOMAIN players0 THEN n ELSE << >>,
         lists |-> lists]

\* new Player(name, this._players[name] || {ip: '', ips: [], joins: 0}, this._lists)
\* The view holds the record object it was constructed with: rec is its key in
\* the registry (<< >> for the default object, which is in no registry), and
\* info is what the record's fields were when the view was constructed.
getPlayer(name) ==
    LET n == toLocaleUpperCase(name)
    IN  [name  |-> n,
         info  |-> IF n \in DOMAIN players THEN players[n] ELSE ZeroInfo,
         rec   |-> IF n \in DOMAIN players THEN n ELSE << >>,
         lists |-> lists]

\* get players(): Object.keys(this._players).map(this.getPlayer), by key
playersAccessor == [k \in DOMAIN players |-> getPlayer(k)]

\* what the record object a view holds shows now: the handlers write the fields
\* of the object this._players[key] refers to and never put another in its
\* place, so the object a view took from the registry is the one at its key
recordNow(view) ==
    IF view.rec \in DOMAIN players THEN players[view.rec] ELSE view.info

\* Player.isOwner
isOwner(player) == player.info.owner

\* a join handler that pushes the address whether or not it is known
onJoinAlwaysPush(reg, name, ip) ==
    LET n   == toLocaleUpperCase(name)
        cur == IF n \in DOMAIN reg THEN reg[n]
               ELSE [ip |-> ip, ips |-> << >>, joins |-> 0, owner |-> FALSE]
    IN  Put(reg, n, [cur EXCEPT !.joins = @ + 1, !.ip = ip, !.ips = Append(@, ip)])

\* a join handler that keys the record by the name as reported
onJoinRawKey(reg, name, ip) ==
    LET cur == IF name \in DOMAIN reg THEN reg[name]
               ELSE [ip |-> ip, ips |-> <<ip>>, joins |-> 0, owner |-> FALSE]
        new == [cur EXCEPT !.joins = @ + 1,
                           !.ip = ip,
                           !.ips = IF Includes(@, ip) THEN @ ELSE Append(@, ip)]
    IN  Put(reg, name, new)

\* the registry after the watcher.onJoin handler has run
onJoinRegistry(reg, name, ip) ==
    LET n   == toLocaleUpperCase(name)
        cur == IF n \in DOMAIN reg THEN reg[n]
               ELSE [ip |-> ip, ips |-> <<ip>>, joins |-> 0, owner |-> FALSE]
        new == [cur EXCEPT !.joins = @ + 1,
                           !.ip = ip,
                           !.ips = IF Includes(@, ip) THEN @ ELSE Append(@, ip)]
    IN  Put(reg, n, new)

\* an owner marking that takes the flag from every other record
markOwnerExclusive(reg, owner) ==
    LET cur == IF owner \in DOMAIN reg THEN reg[owner] ELSE ZeroInfo
    IN  [k \in DOMAIN reg \cup {owner} |->
            IF k = owner THEN [cur EXCEPT !.owner = TRUE]
            ELSE [reg[k] EXCEPT !.owner = FALSE]]

\* the registry after getOverview's then-callback has marked the owner
markOwner(reg, owner) ==
    LET cur == IF owner \in DOMAIN reg THEN reg[owner] ELSE ZeroInfo
    IN  Put(reg, owner, [cur EXCEPT !.owner = TRUE])

---------------------------------------------------------------------------
(* The ChatWatcher's events *)

\* the ChatWatcher's own tracking of the shared online array
watcherOnline(arr, kind, name) ==
    IF kind = "join"
    THEN IF Includes(arr, name) THEN arr ELSE Append(arr, name)
    ELSE Without(arr, name)

\* what a handler does, as the subscribers and listeners see it
Dispatched(kind, player, message) ==
    [kind |-> kind, player |-> player, message |-> message, listener |-> "none",
     args |-> << >>]
Called(listener, player, args) ==
    [kind |-> "call", player |-> player, message |-> << >>, listener |-> listener,
     args |-> args]
Thrown(error) ==
    [kind |-> error, player |-> << >>, message |-> << >>, listener |-> "none",
     args |-> << >>]

Remember(evs, kind, name) ==
    LET ev == [kind |-> kind, name |-> name]
    IN  IF evs = << >> THEN <<ev>> ELSE <<evs[Len(evs)], ev>>

\* a join handler that dispatches the view before it updates the record
WatcherJoinPublishFirst(name, ip) ==
    /\ Len(joinLog) < MaxJoins
    /\ joinLog' = Append(joinLog, <<name, ip>>)
    /\ recent' = Remember(recent, "join", name)
    /\ online' = watcherOnline(online, "join", name)
    /\ players' = onJoinRegistry(players, name, ip)
    /\ out' = <<Dispatched("join", getPlayer(toLocaleUpperCase(name)), << >>)>>
    /\ UNCHANGED <<players0, lists, cache, fetches, heap, clients, remoteLists,
                   lastSubmit, commands, ret>>

\* the handler subscribed to watcher.onJoin
WatcherJoin(name, ip) ==
    /\ Len(joinLog) < MaxJoins
    /\ joinLog' = Append(joinLog, <<name, ip>>)
    /\ recent' = Remember(recent, "join", name)
    /\ online' = watcherOnline(online, "join", name)
    /\ players' = onJoinRegistry(players, name, ip)
    /\ lists' = lists
    /\ out' = <<Dispatched("join", getPlayer(toLocaleUpperCase(name))', << >>)>>
    /\ UNCHANGED <<players0, cache, fetches, heap, clients, remoteLists,
                   lastSubmit, commands, ret>>

\* a leave handler that dispatches its event twice
WatcherLeaveTwice(name) ==
    /\ recent' = Remember(recent, "leave", name)
    /\ online' = watcherOnline(online, "leave", name)
    /\ out' = <<Dispatched("leave", getPlayer(name), << >>),
                Dispatched("leave", getPlayer(name), << >>)>>
    /\ UNCHANGED <<players, players0, lists, cache, fetches, heap, clients,
                   remoteLists, lastSubmit, joinLog, commands, ret>>

\* the handler subscribed to watcher.onLeave
WatcherLeave(name) ==
    /\ recent' = Remember(recent, "leave", name)
    /\ online' = watcherOnline(online, "leave", name)
    /\ out' = <<Dispatched("leave", getPlayer(name), << >>)>>
    /\ UNCHANGED <<players, players0, lists, cache, fetches, heap, clients,
                   remoteLists, lastSubmit, joinLog, commands, ret>>

\* a test that accepts every message that starts with the prefix
testPrefixOnly(message) == Len(message) >= 1 /\ message[1] = "/"

\* /^\/[^ ]/.test(message)
test(message) == Len(message) >= 2 /\ message[1] = "/" /\ message[2] # " "

\* the characters the . of a regular expression does not match
LineTerminators == {"\n", "\r"}

NoMatch == [found |-> FALSE, command |-> << >>, args |-> << >>]

\* message.match(/^\/([^ ]+) ?(.*)$/): of the ways the expression fits the whole
\* message, the one backtracking finds first (the longest first group, then the
\* optional space taken), or null if there is none
match(message) ==
    LET n    == Len(message)
        fits == {p \in (1..n) \X {0, 1} :
                    /\ message[1] = "/"
                    /\ p[1] + 1 <= n
                    /\ \A i \in 2..(p[1] + 1) : message[i] # " "
                    /\ p[2] = 1 => (p[1] + 2 <= n /\ message[p[1] + 2] = " ")
                    /\ \A i \in (p[1] + 2 + p[2])..n : message[i] \notin LineTerminators}
        best == CHOOSE p \in fits :
                    \A q \in fits : q[1] < p[1] \/ (q[1] = p[1] /\ q[2] <= p[2])
    IN  IF fits = {} THEN NoMatch
        ELSE [found   |-> TRUE,
              command |-> SubSeq(message, 2, best[1] + 1),
              args    |-> SubSeq(message, best[1] + 2 + best[2], n)]

\* the command part of the watcher.onMessage handler
dispatchCommand(name, message) ==
    LET m == match(message)
        k == toLocaleUpperCase(m.command)
    IN  IF ~test(message) THEN << >>
        ELSE IF ~m.found THEN <<Thrown("TypeError")>>
        ELSE IF k \in DOMAIN commands
             THEN <<Called(commands[k], getPlayer(name), m.args)>>
             ELSE << >>

\* a message handler that stores the default record of a sender it does not know
WatcherMessageInsert(name, message) ==
    /\ recent' = Remember(recent, "message", name)
    /\ out' = <<Dispatched("message", getPlayer(name), message)>>
                 \o dispatchCommand(name, message)
    /\ players' = IF toLocaleUpperCase(name) \in DOMAIN players THEN players
                  ELSE Put(players, toLocaleUpperCase(name), ZeroInfo)
    /\ UNCHANGED <<players0, online, lists, cache, fetches, heap, clients,
                   remoteLists, lastSubmit, joinLog, commands, ret>>

\* a message handler whose event carries the view of the registry as loaded
WatcherMessageStale(name, message) ==
    /\ recent' = Remember(recent, "message", name)
    /\ out' = <<Dispatched("message", getPlayerStale(name), message)>>
                 \o dispatchCommand(name, message)
    /\ UNCHANGED <<players, players0, online, lists, cache, fetches, heap, clients,
                   remoteLists, lastSubmit, joinLog, commands, ret>>

\* the handler subscribed to watcher.onMessage
WatcherMessage(name, message) ==
    /\ recent' = Remember(recent, "message", name)
    /\ out' = <<Dispatched("message", getPlayer(name), message)>>
                 \o dispatchCommand(name, message)
    /\ UNCHANGED <<players, players0, online, lists, cache, fetches, heap, clients,
                   remoteLists, lastSubmit, joinLog, commands, ret>>

---------------------------------------------------------------------------
(* The synchronous calls: getPlayer and the command registry *)

NoRet == [op |-> "none", threw |-> FALSE, value |-> << >>]

\* a getPlayer that stores the default record of a name it does not know
GetPlayerInsert(name) ==
    /\ ret' = [op |-> "getPlayer", threw |-> FALSE, value |-> getPlayer(name)]
    /\ players' = IF toLocaleUpperCase(name) \in DOMAIN players THEN players
                  ELSE Put(players, toLocaleUpperCase(name), ZeroInfo)
    /\ UNCHANGED <<players0, online, lists, cache, fetches, heap, clients,
                   remoteLists, lastSubmit, joinLog, commands, recent, out>>

GetPlayer(name) ==
    /\ ret' = [op |-> "getPlayer", threw |-> FALSE, value |-> getPlayer(name)]
    /\ UNCHANGED <<players, players0, online, lists, cache, fetches, heap, clients,
                   remoteLists, lastSubmit, joinLog, commands, recent, out>>

\* an addCommand that replaces the listener of a token already registered
addCommandOverwrite(command, listener) ==
    /\ ret' = [op |-> "addCommand", threw |-> FALSE, value |-> << >>]
    /\ commands' = Put(commands, toLocaleUpperCase(command), listener)
    /\ UNCHANGED <<players, players0, online, lists, cache, fetches, heap,
                   clients, remoteLists, lastSubmit, joinLog, recent, out>>

addCommand(command, listener) ==
    LET k == toLocaleUpperCase(command)
    IN  /\ IF k \in DOMAIN commands
           THEN /\ ret' = [op |-> "addCommand", threw |-> TRUE, value |-> << >>]
                /\ commands' = commands
           ELSE /\ ret' = [op |-> "addCommand", threw |-> FALSE, value |-> << >>]
                /\ commands' = Put(commands, k, listener)
        /\ UNCHANGED <<players, players0, online, lists, cache, fetches, heap,
                       clients, remoteLists, lastSubmit, joinLog, recent, out>>

\* a removeCommand that deletes the token as given
removeCommandRaw(command) ==
    /\ commands' = [x \in DOMAIN commands \ {command} |-> commands[x]]
    /\ ret' = [op |-> "removeCommand", threw |-> FALSE, value |-> << >>]
    /\ UNCHANGED <<players, players0, online, lists, cache, fetches, heap,
                   clients, remoteLists, lastSubmit, joinLog, recent, out>>

removeCommand(command) ==
    LET k == toLocaleUpperCase(command)
    IN  /\ commands' = [x \in DOMAIN commands \ {k} |-> commands[x]]
        /\ ret' = [op |-> "removeCommand", threw |-> FALSE, value |-> << >>]
        /\ UNCHANGED <<players, players0, online, lists, cache, fetches, heap,
                       clients, remoteLists, lastSubmit, joinLog, recent, out>>

\* an accessor that hands out this._online itself
onlineAccessorShared == [shared |-> TRUE, arr |-> online, mutated |-> FALSE]

\* get online(): [...this._online], a new array with the same names
onlineAccessor == [shared |-> FALSE, arr |-> online, mutated |-> FALSE]

\* world.online, read by a caller
GetOnline ==
    /\ ret' = [op |-> "online", threw |-> FALSE, value |-> onlineAccessor]
    /\ UNCHANGED <<players, players0, online, lists, cache, fetches, heap, clients,
                   remoteLists, lastSubmit, joinLog, commands, recent, out>>

\* the caller does push('XX') or shift() on the array it was given, once
MutateOnlineResult(op) ==
    /\ ret.op = "online"
    /\ ~ret.value.mutated
    /\ LET cur == IF ret.value.shared THEN online ELSE ret.value.arr
           new == IF op = "push" THEN Append(cur, XX) ELSE Tail(cur)
       IN  /\ op = "shift" => cur # << >>
           /\ ret' = [ret EXCEPT !.value.arr = new, !.value.mutated = TRUE]
           /\ online' = IF ret.value.shared THEN new ELSE online
    /\ UNCHANGED <<players, players0, lists, cache, fetches, heap, clients,
                   remoteLists, lastSubmit, joinLog, commands, recent, out>>

---------------------------------------------------------------------------
(* The cache slots *)

Slots == {"overview", "lists", "logs"}
ListFields == {"adminlist", "modlist", "whitelist", "blacklist"}

NoVal == << >>

\* what api.getOverview() can resolve with
Overviews ==
    { [owner |-> St, online |-> << >>], [owner |-> BO, online |-> <<ST, BO>>] }

\* what api.getLogs() can resolve with
LogValues == { <<"line1">>, <<"line1", "line2">> }

\* the lists the server holds when the World is constructed
RemoteInit ==
    [adminlist |-> << >>, modlist |-> <<BO>>, whitelist |-> << >>, blacklist |-> <<XX>>]

\* the partial updates callers pass to setLists
Partials ==
    { [adminlist |-> <<ST>>],
      [modlist |-> <<ST>>],
      [adminlist |-> <<BO>>, blacklist |-> << >>] }

Settled(fs, f) == fs[f].st \in {"ok", "err"}
FetchCount(s) == Cardinality({f \in DOMAIN fetches : fetches[f].slot = s})

\* the state of the promise slot s holds
SlotState(s) == IF cache[s] = 0 THEN "none" ELSE fetches[cache[s]].st

\* a get that fetches on every call
needsFetchAlways(s, refresh) == TRUE

\* if (!this._cache.<slot> || refresh)
needsFetch(s, refresh) == cache[s] = 0 \/ refresh

\* the promise the call returns a copy of: a new one, or the cached one
targetFetch(s, refresh) ==
    IF needsFetch(s, refresh) THEN Len(fetches) + 1 ELSE cache[s]

\* this._cache.<slot> = this._api.get<Slot>()...
startFetch(s, refresh) ==
    IF needsFetch(s, refresh)
    THEN Append(fetches, [slot |-> s, st |-> "pending", val |-> NoVal,
                          prevSt |-> SlotState(s)])
    ELSE fetches

\* the addresses of the arrays of the object promise f resolved with
FetchArr(f, fld) == <<"f", f, fld>>
\* the addresses of the arrays client c's own copy is made of
ClientArr(c, fld) == <<"c", c, fld>>
\* the arrays of the literal this._lists starts as
WorldArr(fld) == <<"w", 0, fld>>

\* the arrays of the WorldLists object this._lists refers to
ListsRef(ref, fld) == IF ref = 0 THEN WorldArr(fld) ELSE FetchArr(ref, fld)

\* overview => ({ ...overview }): the arrays of the copy
overviewCopy(c, f) == [online |-> FetchArr(f, "online")]

\* lists => ({ ...lists }): a copy that shares the arrays of the cached object
listsCopyShallow(c, f) == [fld \in ListFields |-> FetchArr(f, fld)]

\* lists => ({adminlist: [...lists.adminlist], ...}): the arrays of the copy
listsCopy(c, f) == [fld \in ListFields |-> ClientArr(c, fld)]

\* lines => lines.slice().map(line => ({...line}))
logsCopy(lines) == [i \in DOMAIN lines |-> lines[i]]

NoRes ==
    [st |-> "none", slot |-> "none", fetch |-> 0, owner |-> << >>, arrs |-> << >>,
     log |-> << >>]

\* what the promise returned to client c settles with, fs[f] being settled
resultOf(c, f, fs) ==
    LET s == fs[f].slot
    IN  IF fs[f].st = "err"
        THEN [NoRes EXCEPT !.st = "err", !.slot = s, !.fetch = f]
        ELSE [st    |-> "ok",
              slot  |-> s,
              fetch |-> f,
              owner |-> IF s = "overview" THEN fs[f].val.owner ELSE << >>,
              arrs  |-> CASE s = "overview" -> overviewCopy(c, f)
                          [] s = "lists" -> listsCopy(c, f)
                          [] OTHER -> << >>,
              log   |-> IF s = "logs" THEN logsCopy(fs[f].val) ELSE << >>]

\* the arrays a result's copy allocates, with their contents read from heap h
copyCells(res, h) ==
    LET own == {fld \in DOMAIN res.arrs : res.arrs[fld][1] = "c"}
    IN  [a \in {res.arrs[fld] : fld \in own} |-> h[FetchArr(res.fetch, a[3])]]

Store(h, cells) ==
    [a \in DOMAIN h \cup DOMAIN cells |-> IF a \in DOMAIN cells THEN cells[a] ELSE h[a]]

Contents(arrs, h) == [fld \in DOMAIN arrs |-> h[arrs[fld]]]

---------------------------------------------------------------------------
(* The callers *)

IdleClient ==
    [pc |-> "idle", fetch |-> 0, res |-> NoRes, mutated |-> FALSE,
     partial |-> << >>, merged |-> << >>, setres |-> "none"]

\* {...lists, ...currentLists}
overlayCurrentWins(current, partial) ==
    [fld \in DOMAIN current \cup DOMAIN partial |->
        IF fld \in DOMAIN current THEN current[fld] ELSE partial[fld]]

\* {...currentLists, ...lists}
overlay(current, partial) ==
    [fld \in DOMAIN current \cup DOMAIN partial |->
        IF fld \in DOMAIN partial THEN partial[fld] ELSE current[fld]]

Awaiting(cl, f) == cl.pc \in {"wait", "setGet", "setReload"} /\ cl.fetch = f

\* caller cl (client c) when it continues with the outcome of the promise f it
\* awaited; h is the heap after its copy has been made
afterSettle(c, cl, f, fs, h) ==
    LET res == resultOf(c, f, fs)
    IN  CASE cl.pc = "wait" ->
                [cl EXCEPT !.pc = "idle", !.fetch = 0, !.res = res]
          [] cl.pc = "setGet" ->
                \* let currentLists = await this.getLists()
                \* await this._api.setLists({...currentLists, ...lists})
                IF res.st = "ok"
                THEN [cl EXCEPT !.pc = "setSubmit",
                                !.merged = overlay(Contents(res.arrs, h), cl.partial)]
                ELSE [cl EXCEPT !.pc = "idle", !.fetch = 0, !.setres = "getErr"]
          [] cl.pc = "setReload" ->
                \* await this.getLists(true)
                [cl EXCEPT !.pc = "idle", !.fetch = 0,
                           !.setres = IF res.st = "ok" THEN "ok" ELSE "reloadErr"]
          [] OTHER -> cl

\* client c calls the get operation of slot s; pcw is where it then waits. The
\* call returns this._cache.<slot>.then(copy), a promise that is pending even
\* when the cached one is settled: the copy is made in a later microtask
callGet(c, s, refresh, pcw, partial) ==
    LET f   == targetFetch(s, refresh)
        fs  == startFetch(s, refresh)
        cl  == [IdleClient EXCEPT !.pc = pcw, !.fetch = f, !.partial = partial]
    IN  /\ clients[c].pc = "idle"
        /\ fetches' = fs
        /\ cache' = [cache EXCEPT ![s] = f]
        /\ heap' = heap
        /\ clients' = [clients EXCEPT ![c] = cl]

\* the then-callback of the call of client c, in a microtask after the cached
\* promise has settled: the copy is made and the caller continues
Continue(c) ==
    LET cl == clients[c]
        f  == cl.fetch
    IN  /\ Awaiting(cl, f)
        /\ Settled(fetches, f)
        /\ heap' = Store(heap, copyCells(resultOf(c, f, fetches), heap))
        /\ clients' = [clients EXCEPT ![c] = afterSettle(c, cl, f, fetches, heap')]
        /\ UNCHANGED <<players, players0, online, lists, cache, fetches,
                       remoteLists, lastSubmit, joinLog, chat>>

getOverview(c, refresh) ==
    /\ callGet(c, "overview", refresh, "wait", << >>)
    /\ UNCHANGED <<players, players0, online, lists, remoteLists, lastSubmit,
                   joinLog, chat>>

getLists(c, refresh) ==
    /\ callGet(c, "lists", refresh, "wait", << >>)
    /\ UNCHANGED <<players, players0, online, lists, remoteLists, lastSubmit,
                   joinLog, chat>>

getLogs(c, refresh) ==
    /\ callGet(c, "logs", refresh, "wait", << >>)
    /\ UNCHANGED <<players, players0, online, lists, remoteLists, lastSubmit,
                   joinLog, chat>>

---------------------------------------------------------------------------
(* The remote API answering *)

\* api.getOverview() resolves with ov and the then-callback of getOverview runs:
\* the cached promise is fulfilled; the callers awaiting it continue later
ResolveOverview(f, ov) ==
    /\ fetches[f].slot = "overview"
    /\ fetches[f].st = "pending"
    /\ LET fs == [fetches EXCEPT ![f].st = "ok", ![f].val = ov]
           h1 == Store(heap, (FetchArr(f, "online") :> ov.online))
       IN  /\ fetches' = fs
           /\ online' = PushMissing(online, h1[FetchArr(f, "online")])
           /\ players' = markOwner(players, ov.owner)
           /\ heap' = h1
    /\ UNCHANGED <<players0, lists, cache, clients, remoteLists, lastSubmit,
                   joinLog, chat>>

\* the server reads its lists to answer api.getLists()
AnswerLists(f) ==
    /\ fetches[f].slot = "lists"
    /\ fetches[f].st = "pending"
    /\ fetches' = [fetches EXCEPT ![f].st = "answered", ![f].val = remoteLists]
    /\ UNCHANGED <<players, players0, online, lists, cache, heap, clients,
                   remoteLists, lastSubmit,
                   joinLog, chat>>

\* a resolution that leaves this._lists as it is
ResolveListsNoSnapshot(f) ==
    /\ fetches[f].slot = "lists"
    /\ fetches[f].st = "answered"
    /\ LET fs == [fetches EXCEPT ![f].st = "ok"]
           h1 == Store(heap, [a \in {FetchArr(f, fld) : fld \in ListFields} |->
                                 fetches[f].val[a[3]]])
       IN  /\ fetches' = fs
           /\ heap' = h1
    /\ UNCHANGED <<players, players0, online, lists, cache, clients, remoteLists,
                   lastSubmit, joinLog, chat>>

\* api.getLists() resolves and the then-callback lists => this._lists = lists
\* runs: the cached promise is fulfilled; the callers awaiting it continue later
ResolveLists(f) ==
    /\ fetches[f].slot = "lists"
    /\ fetches[f].st = "answered"
    /\ LET fs == [fetches EXCEPT ![f].st = "ok"]
           h1 == Store(heap, [a \in {FetchArr(f, fld) : fld \in ListFields} |->
                                 fetches[f].val[a[3]]])
       IN  /\ fetches' = fs
           /\ lists' = f
           /\ heap' = h1
    /\ UNCHANGED <<players, players0, online, cache, clients, remoteLists,
                   lastSubmit, joinLog, chat>>

\* api.getLogs() resolves with lines: the cached promise, which is the api's,
\* is fulfilled; the callers awaiting it continue later
ResolveLogs(f, lines) ==
    /\ fetches[f].slot = "logs"
    /\ fetches[f].st = "pending"
    /\ fetches' = [fetches EXCEPT ![f].st = "ok", ![f].val = lines]
    /\ UNCHANGED <<players, players0, online, lists, cache, heap, clients,
                   remoteLists, lastSubmit, joinLog, chat>>

\* a rejection after which the slot fetches again by itself
RejectFetchRetry(f) ==
    /\ fetches[f].st \in {"pending", "answered"}
    /\ LET fs == [fetches EXCEPT ![f].st = "err", ![f].val = NoVal]
       IN  /\ fetches' = Append(fs, [slot |-> fetches[f].slot, st |-> "pending",
                                     val |-> NoVal, prevSt |-> "err"])
           /\ cache' = [cache EXCEPT ![fetches[f].slot] = Len(fetches) + 1]
    /\ UNCHANGED <<players, players0, online, lists, heap, clients, remoteLists,
                   lastSubmit, joinLog, chat>>

\* a rejection that empties the other slots
RejectFetchClears(f) ==
    /\ fetches[f].st \in {"pending", "answered"}
    /\ fetches' = [fetches EXCEPT ![f].st = "err", ![f].val = NoVal]
    /\ cache' = [s \in Slots |-> IF s = fetches[f].slot THEN cache[s] ELSE 0]
    /\ UNCHANGED <<players, players0, online, lists, heap, clients, remoteLists,
                   lastSubmit, joinLog, chat>>

\* the api promise of f rejects: the then-callback of the get is passed over and
\* the cached promise is rejected; the callers awaiting it continue later
RejectFetch(f) ==
    /\ fetches[f].st \in {"pending", "answered"}
    /\ fetches' = [fetches EXCEPT ![f].st = "err", ![f].val = NoVal]
    /\ UNCHANGED <<players, players0, online, lists, cache, heap, clients,
                   remoteLists, lastSubmit, joinLog, chat>>

---------------------------------------------------------------------------
(* setLists *)

\* setLists(partial) up to its first suspension, at await this.getLists(); the
\* call of this._api.setLists follows when the lists have been delivered
setLists(c, partial) ==
    /\ callGet(c, "lists", FALSE, "setGet", partial)
    /\ UNCHANGED <<players, players0, online, lists, remoteLists, lastSubmit,
                   joinLog, chat>>

\* the reload setLists does once the submission has succeeded
reload(c) ==
    LET f == targetFetch("lists", TRUE)
    IN  /\ fetches' = startFetch("lists", TRUE)
        /\ cache' = [cache EXCEPT !["lists"] = f]
        /\ clients' = [clients EXCEPT ![c].pc = "setReload", ![c].fetch = f]

\* this._api.setLists(merged) resolves: the server holds the merged lists, and
\* setLists goes on to await this.getLists(true)
SubmitOk(c) ==
    /\ clients[c].pc = "setSubmit"
    /\ remoteLists' = clients[c].merged
    /\ lastSubmit' = c
    /\ reload(c)
    /\ UNCHANGED <<players, players0, online, lists, heap, joinLog, chat>>

\* a setLists that reloads the lists whether or not the submission succeeded
SubmitFailThenReload(c) ==
    /\ clients[c].pc = "setSubmit"
    /\ fetches' = startFetch("lists", TRUE)
    /\ cache' = [cache EXCEPT !["lists"] = targetFetch("lists", TRUE)]
    /\ clients' = [clients EXCEPT ![c].pc = "idle", ![c].fetch = 0,
                                  ![c].setres = "submitErr"]
    /\ UNCHANGED <<players, players0, online, lists, heap, remoteLists, lastSubmit,
                   joinLog, chat>>

\* this._api.setLists(merged) rejects: setLists rejects with it
SubmitFail(c) ==
    /\ clients[c].pc = "setSubmit"
    /\ clients' = [clients EXCEPT ![c].pc = "idle", ![c].fetch = 0,
                                  ![c].setres = "submitErr"]
    /\ UNCHANGED <<players, players0, online, lists, cache, fetches, heap,
                   remoteLists, lastSubmit,
                   joinLog, chat>>

---------------------------------------------------------------------------
(* What a caller does to the value it was given *)

Holds(c) == clients[c].pc = "idle" /\ clients[c].res.st = "ok"

\* result.<fld>.push('XX') or result.<fld>.shift(), once per result
MutateArray(c, fld, op) ==
    /\ Holds(c)
    /\ ~clients[c].mutated
    /\ fld \in DOMAIN clients[c].res.arrs
    /\ LET a == clients[c].res.arrs[fld]
       IN  /\ op = "push" => Len(heap[a]) < MaxLen
           /\ op = "shift" => heap[a] # << >>
           /\ heap' = [heap EXCEPT ![a] = IF op = "push" THEN Append(@, XX) ELSE Tail(@)]
    /\ clients' = [clients EXCEPT ![c].mutated = TRUE]
    /\ UNCHANGED <<players, players0, online, lists, cache, fetches, remoteLists,
                   lastSubmit,
                   joinLog, chat>>

\* result.owner = 'XX'
MutateOwner(c) ==
    /\ Holds(c)
    /\ ~clients[c].mutated
    /\ clients[c].res.slot = "overview"
    /\ clients' = [clients EXCEPT ![c].res.owner = XX, ![c].mutated = TRUE]
    /\ UNCHANGED <<players, players0, online, lists, cache, fetches, heap,
                   remoteLists, lastSubmit,
                   joinLog, chat>>

---------------------------------------------------------------------------
(* The state after construction: the registry loaded from storage, and the   *)
(* overview and lists fetches of the constructor outstanding.                *)

\* a constructor that fetches the logs as well
InitWithLogs ==
    /\ players0 \in StoredRegistries
    /\ players = players0
    /\ online = << >>
    /\ lists = 0
    /\ fetches = << [slot |-> "overview", st |-> "pending", val |-> NoVal,
                     prevSt |-> "none"],
                    [slot |-> "lists", st |-> "pending", val |-> NoVal,
                     prevSt |-> "none"],
                    [slot |-> "logs", st |-> "pending", val |-> NoVal,
                     prevSt |-> "none"] >>
    /\ cache = [s \in Slots |-> CASE s = "overview" -> 1 [] s = "lists" -> 2 [] OTHER -> 3]
    /\ heap = [a \in {WorldArr(fld) : fld \in ListFields} |-> << >>]
    /\ clients = [c \in Clients |-> IdleClient]
    /\ remoteLists = RemoteInit
    /\ lastSubmit = 0
    /\ joinLog = << >>
    /\ commands = << >>
    /\ recent = << >>
    /\ out = << >>
    /\ ret = NoRet

Init ==
    /\ players0 \in StoredRegistries
    /\ players = players0
    /\ online = << >>
    /\ lists = 0
    /\ fetches = << [slot |-> "overview", st |-> "pending", val |-> NoVal,
                     prevSt |-> "none"],
                    [slot |-> "lists", st |-> "pending", val |-> NoVal,
                     prevSt |-> "none"] >>
    /\ cache = [s \in Slots |-> CASE s = "overview" -> 1 [] s = "lists" -> 2 [] OTHER -> 0]
    /\ heap = [a \in {WorldArr(fld) : fld \in ListFields} |-> << >>]
    /\ clients = [c \in Clients |-> IdleClient]
    /\ remoteLists = RemoteInit
    /\ lastSubmit = 0
    /\ joinLog = << >>
    /\ commands = << >>
    /\ recent = << >>
    /\ out = << >>
    /\ ret = NoRet

InitFresh == Init /\ players0 = << >>

\* The model stops starting fetches at MaxFetches promises, keeping room for the
\* reload of every setLists that is under way.
SetListsRunning ==
    Cardinality({c \in Clients : clients[c].pc \in {"setGet", "setSubmit"}})

CanFetch == Len(fetches) + SetListsRunning < MaxFetches

Bounded(s, refresh) == needsFetch(s, refresh) => CanFetch

\* the registry side: events, and the overview fetches that mark the owner
NextReg ==
    \/ \E n \in Names, ip \in Addresses : WatcherJoin(n, ip)
    \/ \E r \in BOOLEAN : Bounded("overview", r) /\ getOverview(1, r)
    \/ \E f \in DOMAIN fetches, ov \in Overviews : ResolveOverview(f, ov)
    \/ Continue(1)

SpecReg == Init /\ [][NextReg]_vars

\* the cache side: the three slots and their callers
NextCache ==
    \/ \E c \in Clients, r \in BOOLEAN : Bounded("overview", r) /\ getOverview(c, r)
    \/ \E c \in Clients, r \in BOOLEAN : Bounded("lists", r) /\ getLists(c, r)
    \/ \E c \in Clients, r \in BOOLEAN : Bounded("logs", r) /\ getLogs(c, r)
    \/ \E f \in DOMAIN fetches, ov \in Overviews : ResolveOverview(f, ov)
    \/ \E f \in DOMAIN fetches : AnswerLists(f)
    \/ \E f \in DOMAIN fetches : ResolveLists(f)
    \/ \E f \in DOMAIN fetches, lines \in LogValues : ResolveLogs(f, lines)
    \/ \E f \in DOMAIN fetches : RejectFetch(f)
    \/ \E c \in Clients : Continue(c)

SpecCache == InitFresh /\ [][NextCache]_vars

\* the overview slot alone, with callers that change the values they were given
NextOverview ==
    \/ \E c \in Clients, r \in BOOLEAN : Bounded("overview", r) /\ getOverview(c, r)
    \/ \E f \in DOMAIN fetches, ov \in Overviews : ResolveOverview(f, ov)
    \/ \E f \in DOMAIN fetches : fetches[f].slot = "overview" /\ RejectFetch(f)
    \/ \E c \in Clients, op \in {"push", "shift"} : MutateArray(c, "online", op)
    \/ \E c \in Clients : MutateOwner(c)
    \/ \E c \in Clients : Continue(c)

SpecOverview == InitFresh /\ [][NextOverview]_vars

\* the lists side: getLists and setLists against the server's lists
NextLists ==
    \/ \E c \in Clients, r \in BOOLEAN : Bounded("lists", r) /\ getLists(c, r)
    \/ \E c \in Clients, p \in Partials : CanFetch /\ setLists(c, p)
    \/ \E c \in Clients : SubmitOk(c)
    \/ \E c \in Clients : SubmitFail(c)
    \/ \E f \in DOMAIN fetches : AnswerLists(f)
    \/ \E f \in DOMAIN fetches : ResolveLists(f)
    \/ \E f \in DOMAIN fetches : fetches[f].slot = "lists" /\ RejectFetch(f)
    \/ \E c \in Clients, fld \in ListFields, op \in {"push", "shift"} :
          MutateArray(c, fld, op)
    \/ \E c \in Clients : Continue(c)

SpecLists == InitFresh /\ [][NextLists]_vars

\* the chat side: the watcher's events and the command registry
ChatNames == {St, ST}
Tokens == {st, ST, Bo}
Listeners == {"h1", "h2"}

\* the messages the ChatWatcher reports
Messages ==
    { <<"/", "s", "t", " ", "b", "o">>,          \* a command and its arguments
      <<"/", "S", "T">>,                         \* a command alone
      <<"/", "S", "t", " ", " ", "x">>,          \* two spaces before the arguments
      <<"/", "x", "x", " ", "b", "o">>,          \* a token nobody registers
      <<"/", " ", "s", "t">>,                    \* a space after the prefix
      <<"/">>,
      <<"x", " ", "/", "s", "t">>,               \* chat with a command later on
      <<"/", "s", "t", " ", "b", "\n", "x">>,    \* a line break in the arguments
      <<"/", "x", "x", " ", "\n">>,
      <<"/", "s", "\n", "t">> }                  \* a line break in the token

NextChat ==
    \/ WatcherJoin(St, "1.1")
    \/ \E n \in ChatNames : WatcherLeave(n)
    \/ \E n \in ChatNames, m \in Messages : WatcherMessage(n, m)
    \/ \E t \in Tokens, h \in Listeners : addCommand(t, h)
    \/ \E t \in Tokens : removeCommand(t)

SpecChat == InitFresh /\ [][NextChat]_vars

\* the reading side: getPlayer while players join and the constructor's two
\* fetches resolve
NextPlayers ==
    \/ \E n \in Names : WatcherJoin(n, "1.1")
    \/ \E n \in QueryNames : GetPlayer(n)
    \/ \E ov \in Overviews : ResolveOverview(1, ov)
    \/ AnswerLists(2)
    \/ ResolveLists(2)

SpecPlayers == Init /\ [][NextPlayers]_vars

\* the online array: joins and leaves seen by the watcher, and the overviews
\* merged into it, with both callers asking for the overview
NextMerge ==
    \/ \E n \in {St, BO} : WatcherJoin(n, "1.1")
    \/ WatcherLeave(BO)
    \/ \E c \in Clients, r \in BOOLEAN : Bounded("overview", r) /\ getOverview(c, r)
    \/ \E f \in DOMAIN fetches, ov \in Overviews : ResolveOverview(f, ov)
    \/ \E f \in DOMAIN fetches : fetches[f].slot = "overview" /\ RejectFetch(f)
    \/ \E c \in Clients : Continue(c)

SpecMerge == InitFresh /\ [][NextMerge]_vars

\* the message the watcher reports in the interleaving of events and fetches
EventMessages == { <<"/", "S", "T">> }

\* the events of the three kinds while the overview is fetched and refreshed
NextEvents ==
    \/ \E n \in {St, BO} : WatcherJoin(n, "2.2")
    \/ WatcherLeave(BO)
    \/ \E m \in EventMessages : WatcherMessage(BO, m)
    \/ addCommand(st, "h1")
    \/ \E r \in BOOLEAN : Bounded("overview", r) /\ getOverview(1, r)
    \/ \E f \in DOMAIN fetches, ov \in Overviews : ResolveOverview(f, ov)
    \/ Continue(1)

SpecEvents == InitFresh /\ [][NextEvents]_vars

\* the handling of one event of the watcher, of any of the three kinds
SlotsEvent ==
    \/ WatcherJoin(BO, "2.2")
    \/ WatcherLeave(BO)
    \/ \E m \in EventMessages : WatcherMessage(BO, m)

\* the three slots and the events of one player in any order: the overview and
\* the logs fetched and refreshed, the lists of the constructor's fetch, each
\* fetch answered or failing, the caller continuing, and the watcher's joins,
\* leaves and messages wherever they fall
NextSlots ==
    \/ \E r \in BOOLEAN : Bounded("overview", r) /\ getOverview(1, r)
    \/ getLists(1, FALSE)
    \/ \E r \in BOOLEAN : Bounded("logs", r) /\ getLogs(1, r)
    \/ \E f \in DOMAIN fetches : ResolveOverview(f, [owner |-> BO, online |-> <<ST, BO>>])
    \/ \E f \in DOMAIN fetches : AnswerLists(f)
    \/ \E f \in DOMAIN fetches : ResolveLists(f)
    \/ \E f \in DOMAIN fetches : ResolveLogs(f, <<"line1">>)
    \/ \E f \in DOMAIN fetches : RejectFetch(f)
    \/ Continue(1)
    \/ SlotsEvent

SpecSlots == InitFresh /\ [][NextSlots]_vars

\* the time after construction: events and calls that do not refresh, while
\* the constructor's two fetches are outstanding and as they settle
NextStart ==
    \/ WatcherJoin(BO, "2.2")
    \/ WatcherLeave(BO)
    \/ WatcherMessage(BO, <<"/", "S", "T">>)
    \/ \E c \in Clients : getOverview(c, FALSE)
    \/ \E c \in Clients : getLists(c, FALSE)
    \/ \E ov \in Overviews : ResolveOverview(1, ov)
    \/ AnswerLists(2)
    \/ ResolveLists(2)
    \/ \E f \in {1, 2} : RejectFetch(f)
    \/ \E c \in Clients : Continue(c)

SpecStart == InitFresh /\ [][NextStart]_vars

\* every kind of operation once, by one caller, around the online accessor
NextOnline ==
    \/ WatcherJoin(BO, "1.1")
    \/ WatcherLeave(BO)
    \/ WatcherMessage(BO, <<"/", "S", "T">>)
    \/ getOverview(1, FALSE)
    \/ getLists(1, FALSE)
    \/ Bounded("logs", FALSE) /\ getLogs(1, FALSE)
    \/ CanFetch /\ setLists(1, [adminlist |-> <<ST>>])
    \/ SubmitOk(1)
    \/ \E f \in DOMAIN fetches : ResolveOverview(f, [owner |-> BO, online |-> <<ST, BO>>])
    \/ \E f \in DOMAIN fetches : AnswerLists(f)
    \/ \E f \in DOMAIN fetches : ResolveLists(f)
    \/ \E f \in DOMAIN fetches : ResolveLogs(f, <<"line1">>)
    \/ GetPlayer(BO)
    \/ addCommand(st, "h1")
    \/ GetOnline
    \/ \E op \in {"push", "shift"} : MutateOnlineResult(op)
    \/ Continue(1)

SpecOnline == InitFresh /\ [][NextOnline]_vars

\* the lists fetches a run may still start, one being kept for the reload of
\* every setLists under way
CanFetchLists == FetchCount("lists") + SetListsRunning < MaxFetches

\* overlapping lists fetches and overlapping setLists calls: refreshes while the
\* constructor's fetch is outstanding, two callers updating different lists
NextRace ==
    \/ \E c \in Clients, r \in BOOLEAN :
          (needsFetch("lists", r) => CanFetchLists) /\ getLists(c, r)
    \/ \E c \in Clients, p \in {[adminlist |-> <<ST>>], [modlist |-> <<ST>>]} :
          CanFetchLists /\ setLists(c, p)
    \/ \E c \in Clients : SubmitOk(c)
    \/ \E f \in DOMAIN fetches : AnswerLists(f)
    \/ \E f \in DOMAIN fetches : ResolveLists(f)
    \/ \E c \in Clients : Continue(c)

SpecRace == InitFresh /\ [][NextRace]_vars

---------------------------------------------------------------------------
(* What the claims speak of *)

InFlight(s) == {f \in DOMAIN fetches : fetches[f].slot = s /\ ~Settled(fetches, f)}

\* client c calls the get operation of slot s
Calls(c, s, refresh) ==
    CASE s = "overview" -> getOverview(c, refresh)
      [] s = "lists" -> getLists(c, refresh)
      [] OTHER -> getLogs(c, refresh)

\* the value a caller sees in the result it holds, h being the heap
Visible(res, h) ==
    CASE res.slot = "overview" -> [owner |-> res.owner, online |-> h[res.arrs.online]]
      [] res.slot = "lists" -> Contents(res.arrs, h)
      [] OTHER -> res.log

---------------------------------------------------------------------------
(* C1: single-flight per slot.  A get with refresh = false, called while a   *)
(* fetch of its slot is outstanding, starts no remote fetch and awaits the   *)
(* outstanding one; once that fetch has settled, every caller awaiting it is *)
(* given its outcome: the failure, or a value equal to the one fetched.      *)

C1_Joins ==
    \A c \in Clients, s \in Slots :
        (cache[s] \in InFlight(s) /\ Calls(c, s, FALSE))
            => /\ fetches' = fetches
               /\ cache' = cache
               /\ clients'[c].pc = "wait"
               /\ clients'[c].fetch = cache[s]

\* a caller that waits is changed by one step only, the one that gives it the
\* outcome of the fetch it awaits, which has settled by then
C1_Outcome ==
    \A c \in Clients :
        (clients[c].pc = "wait" /\ clients'[c] # clients[c])
            => LET f == clients[c].fetch
                   res == clients'[c].res
               IN  /\ Settled(fetches, f)
                   /\ fetches' = fetches
                   /\ clients'[c].pc = "idle"
                   /\ res.fetch = f
                   /\ res.st = fetches[f].st
                   /\ res.st = "ok" => Visible(res, heap') = fetches[f].val

\* C1: every step keeps single-flight: joining callers start no fetch, and the
\* callers awaiting a fetch are given its outcome once it has settled
C1_SingleFlight == [][C1_Joins /\ C1_Outcome]_vars

\* two callers awaited the constructor's overview fetch, the only one made; it
\* has resolved, one caller holds its value and the other is about to
C1_Witness ==
    /\ fetches[1].st = "ok"
    /\ clients[1].pc = "idle" /\ clients[1].res.fetch = 1 /\ clients[1].res.st = "ok"
    /\ clients[2].pc = "wait" /\ clients[2].fetch = 1
    /\ FetchCount("overview") = 1

---------------------------------------------------------------------------
(* C2: a slot never has more than one fetch in flight, whatever the refresh  *)
(* flags of its callers.                                                     *)

C2_OneInFlight == \A s \in Slots : Cardinality(InFlight(s)) <= 1

---------------------------------------------------------------------------
(* Identities, stated without the program's canonicalization *)

CasePairs ==
    {<<"s", "S">>, <<"t", "T">>, <<"b", "B">>, <<"o", "O">>, <<"x", "X">>}

\* a and b differ at most in the case of their letters
SameIgnoringCase(a, b) ==
    /\ Len(a) = Len(b)
    /\ \A i \in DOMAIN a :
          a[i] = b[i] \/ <<a[i], b[i]>> \in CasePairs \/ <<b[i], a[i]>> \in CasePairs

\* the addresses of the join events of n's identity, in order
JoinsOf(n) ==
    LET js == SelectSeq(joinLog, LAMBDA e : SameIgnoringCase(e[1], n))
    IN  [i \in DOMAIN js |-> js[i][2]]

\* n's identity had a record in storage when the World was constructed
Stored(n) == \E k \in DOMAIN players0 : SameIgnoringCase(k, n)

InitialJoins(n) ==
    IF Stored(n)
    THEN players0[CHOOSE k \in DOMAIN players0 : SameIgnoringCase(k, n)].joins
    ELSE 0

---------------------------------------------------------------------------
(* C3: for an identity with no record at construction, after N >= 1 join     *)
(* events the record has joins = N, ip = the address of the last join, and   *)
(* ips = the distinct addresses of those joins, each once.                   *)

C3_JoinRecord ==
    \A n \in Names :
        LET js == JoinsOf(n)
            info == getPlayer(n).info
        IN  (~Stored(n) /\ js # << >>)
                => /\ info.joins = Len(js)
                   /\ info.ip = js[Len(js)]
                   /\ Elems(info.ips) = Elems(js)
                   /\ NoDuplicates(info.ips)

\* three joins of one identity, under two spellings, from two addresses
C3_Witness ==
    /\ ~Stored(ST)
    /\ Len(JoinsOf(ST)) = 3
    /\ Cardinality(Elems(JoinsOf(ST))) = 2
    /\ \E i, j \in DOMAIN joinLog : joinLog[i][1] = St /\ joinLog[j][1] = ST
    /\ getPlayer(ST).info.joins = 3

---------------------------------------------------------------------------
(* C4: canonicalization is idempotent, names that differ only in letter case *)
(* resolve to the same player, and the joins under every spelling of a name  *)
(* accumulate on that one record.                                            *)

C4_CaseInsensitive ==
    /\ \A n \in QueryNames :
          toLocaleUpperCase(toLocaleUpperCase(n)) = toLocaleUpperCase(n)
    /\ \A n, m \in QueryNames :
          SameIgnoringCase(n, m) => getPlayer(n) = getPlayer(m)
    /\ \A n \in QueryNames :
          getPlayer(n).info.joins = InitialJoins(n) + Len(JoinsOf(n))

\* joins as "St" and as "ST" are both counted in what getPlayer("st") returns
C4_Witness ==
    /\ \E i, j \in DOMAIN joinLog : joinLog[i][1] = St /\ joinLog[j][1] = ST
    /\ getPlayer(st).info.joins = Len(joinLog)
    /\ getPlayer(st) = getPlayer(St)

---------------------------------------------------------------------------
(* C5: once an overview fetch has succeeded with owner O, getPlayer of every *)
(* case variant of O is the owner.                                           *)

C5_OwnerAnyCase ==
    \A f \in DOMAIN fetches :
        (fetches[f].slot = "overview" /\ fetches[f].st = "ok")
            => \A n \in QueryNames :
                  SameIgnoringCase(n, fetches[f].val.owner) => isOwner(getPlayer(n))

---------------------------------------------------------------------------
(* C6: a failed overview refresh is reported to its caller, and a             *)
(* getOverview() without refresh, called once the refresh of a resolved      *)
(* overview has failed, starts no fetch and is served the overview that was  *)
(* cached before the refresh.                                                *)

\* the promise f replaced in its slot
Prev(f) ==
    LET before == {g \in DOMAIN fetches : g < f /\ fetches[g].slot = fetches[f].slot}
    IN  CHOOSE g \in before : \A h \in before : h <= g

\* a caller awaiting a fetch that has failed is given the failure, by the one
\* step that changes it
C6_RefresherFails ==
    \A c \in Clients :
        (clients[c].pc = "wait" /\ fetches[clients[c].fetch].st = "err"
            /\ clients'[c] # clients[c])
            => /\ clients'[c].pc = "idle"
               /\ clients'[c].res.st = "err"
               /\ clients'[c].res.fetch = clients[c].fetch

\* a get without refresh called when the cached refresh f of a resolved
\* overview has failed awaits a promise that resolved with the overview
\* cached before f, which is what its caller is then given
C6_LaterGetStale ==
    \A c \in Clients :
        LET f == cache["overview"]
        IN  (fetches[f].st = "err" /\ fetches[f].prevSt = "ok" /\ getOverview(c, FALSE))
                => LET g == clients'[c].fetch
                   IN  /\ fetches' = fetches
                       /\ fetches[g].st = "ok"
                       /\ fetches[g].val = fetches[Prev(f)].val

\* C6: the refreshing caller is given the failure of its fetch, and a later get
\* without refresh is served the overview cached before the failed refresh
C6_StaleKept == [][C6_RefresherFails /\ C6_LaterGetStale]_vars

---------------------------------------------------------------------------
(* C7: setLists submits the partial laid over the lists its getLists() call  *)
(* returned, the lists the partial does not name being those as fetched; it  *)
(* then reloads, the reload reading the lists after the submission; and once *)
(* it has resolved (no other submission having followed) the cached lists a  *)
(* following getLists() copies hold the partial's values.                    *)

C7_SetLists ==
    \A c \in Clients :
        LET cl == clients[c]
        IN  /\ cl.pc = "setSubmit"
                => /\ fetches[cl.fetch].slot = "lists"
                   /\ fetches[cl.fetch].st = "ok"
                   /\ DOMAIN cl.merged = ListFields
                   /\ \A fld \in ListFields :
                         cl.merged[fld] = IF fld \in DOMAIN cl.partial
                                          THEN cl.partial[fld]
                                          ELSE fetches[cl.fetch].val[fld]
            /\ (cl.pc = "setReload" /\ lastSubmit = c)
                => /\ remoteLists = cl.merged
                   /\ fetches[cl.fetch].slot = "lists"
                   /\ fetches[cl.fetch].st \in {"answered", "ok"}
                         => fetches[cl.fetch].val = cl.merged
            /\ (cl.pc = "idle" /\ cl.setres = "ok" /\ lastSubmit = c
                  /\ SlotState("lists") = "ok")
                => \A fld \in ListFields :
                      heap[FetchArr(cache["lists"], fld)] = cl.merged[fld]

\* setLists({adminlist: ["ST"]}) has resolved: the cached lists have the new
\* adminlist and the modlist and blacklist of before
C7_Witness ==
    \E c \in Clients :
        /\ clients[c].pc = "idle" /\ clients[c].setres = "ok" /\ lastSubmit = c
        /\ DOMAIN clients[c].partial = {"adminlist"}
        /\ SlotState("lists") = "ok"
        /\ heap[FetchArr(cache["lists"], "adminlist")] = <<ST>>
        /\ heap[FetchArr(cache["lists"], "modlist")] = RemoteInit.modlist
        /\ heap[FetchArr(cache["lists"], "blacklist")] = RemoteInit.blacklist

---------------------------------------------------------------------------
(* C8: a setLists whose submission fails rejects with that failure; neither  *)
(* its call nor the failure starts a fetch, replaces the cached promise,     *)
(* changes this._lists or the arrays it refers to, or changes the server's   *)
(* lists.                                                                    *)

ListsArrays(h) ==
    [a \in {x \in DOMAIN h : x[1] # "c"} |-> h[a]]

\* C8: the failing submission and the call of setLists leave the lists slot,
\* this._lists and the server's lists as they were
C8_SubmitFailure ==
    [][ \A c \in Clients :
          /\ (clients[c].pc = "setSubmit" /\ clients'[c].pc = "idle")
                => /\ clients'[c].setres = "submitErr"
                   /\ UNCHANGED <<cache, fetches, lists, remoteLists>>
                   /\ ListsArrays(heap') = ListsArrays(heap)
          /\ (clients[c].pc = "idle" /\ clients'[c].pc \in {"setGet", "setSubmit"})
                => /\ UNCHANGED <<cache, fetches, lists, remoteLists>>
                   /\ ListsArrays(heap') = ListsArrays(heap) ]_vars

\* a setLists has been rejected by the server, the lists being cached
C8_Witness ==
    \E c \in Clients :
        /\ clients[c].pc = "idle" /\ clients[c].setres = "submitErr"
        /\ SlotState("lists") = "ok"
        /\ lists = cache["lists"]

---------------------------------------------------------------------------
(* C9: whatever callers do to the arrays of the lists they were given, the   *)
(* arrays of every resolved lists object (the one the cached promise holds,  *)
(* which a later getLists() copies, and the one this._lists refers to) stay  *)
(* as fetched, and no caller holds an array of such an object.               *)

C9_ListsCopy ==
    /\ \A f \in DOMAIN fetches :
          (fetches[f].slot = "lists" /\ fetches[f].st = "ok")
              => \A fld \in ListFields : heap[FetchArr(f, fld)] = fetches[f].val[fld]
    /\ \A fld \in ListFields : heap[ListsRef(lists, fld)] =
          IF lists = 0 THEN << >> ELSE fetches[lists].val[fld]
    /\ \A c \in Clients :
          clients[c].res.slot = "lists" /\ clients[c].res.st = "ok"
              => \A fld \in ListFields : clients[c].res.arrs[fld][1] = "c"

\* a caller has changed an array of the lists it was given, which now differ
\* from the cached lists it was copied from, this._lists being those
C9_Witness ==
    \E c \in Clients :
        /\ Holds(c) /\ clients[c].mutated
        /\ clients[c].res.slot = "lists"
        /\ clients[c].res.fetch = cache["lists"]
        /\ lists = cache["lists"]
        /\ Visible(clients[c].res, heap) # fetches[cache["lists"]].val

---------------------------------------------------------------------------
(* C10: whatever callers do to the overview they were given, its online      *)
(* array included, the cached overview stays as fetched.                     *)

C10_OverviewCopy ==
    \A f \in DOMAIN fetches :
        (fetches[f].slot = "overview" /\ fetches[f].st = "ok")
            => heap[FetchArr(f, "online")] = fetches[f].val.online

---------------------------------------------------------------------------
(* Commands, stated without the program's canonicalization and parsing *)

\* a listener is registered for tok under some letter case
Registered(tok) == \E k \in DOMAIN commands : SameIgnoringCase(k, tok)
ListenerOf(tok) == commands[CHOOSE k \in DOMAIN commands : SameIgnoringCase(k, tok)]

\* the listener calls among what a handler did
CallsIn(o) == SelectSeq(o, LAMBDA e : e.kind = "call")

\* message is tok after the prefix, alone or followed by a space and arguments
HasToken(message, tok) ==
    /\ Len(message) >= Len(tok) + 1
    /\ message[1] = "/"
    /\ SubSeq(message, 2, Len(tok) + 1) = tok
    /\ Len(message) > Len(tok) + 1 => message[Len(tok) + 2] = " "
ArgsAfter(message, tok) == SubSeq(message, Len(tok) + 3, Len(message))

\* the spellings a token can have in a message
Spellings == {st, St, ST, BO, Bo, <<"b", "o">>}

\* the characters between the prefix and the first space
RECURSIVE UpToSpace(_)
UpToSpace(s) ==
    IF s = << >> \/ Head(s) = " " THEN << >> ELSE <<Head(s)>> \o UpToSpace(Tail(s))
CommandShape(message) == Len(message) >= 2 /\ message[1] = "/" /\ message[2] # " "

---------------------------------------------------------------------------
(* C11: addCommand of a token that is registered, under whatever letter case, *)
(* throws and leaves the registry as it was; a later message with that token  *)
(* calls the listener that was registered first, and only that one.           *)

C11_DuplicateCommand ==
    [][ /\ \A tok \in Tokens, h \in Listeners :
              (Registered(tok) /\ addCommand(tok, h))
                  => /\ ret'.op = "addCommand" /\ ret'.threw
                     /\ commands' = commands
        /\ \A n \in ChatNames :
              (Registered(ST) /\ WatcherMessage(n, <<"/", "S", "T">>))
                  => /\ Len(CallsIn(out')) = 1
                     /\ CallsIn(out')[1].listener = ListenerOf(ST) ]_vars

\* the last addCommand threw, and the message "/ST" that followed called the
\* listener registered for it
C11_Witness ==
    /\ ret.op = "addCommand" /\ ret.threw
    /\ Registered(ST)
    /\ recent # << >> /\ recent[Len(recent)].kind = "message"
    /\ Len(out) = 2
    /\ out[1].message = <<"/", "S", "T">>
    /\ out[2].kind = "call" /\ out[2].listener = ListenerOf(ST)

---------------------------------------------------------------------------
(* C12: a message made of the prefix, a token registered under some letter    *)
(* case and, after a space, arguments, calls the token's listener exactly     *)
(* once, with the view of the sender and the arguments; with nothing after    *)
(* the token, the listener is given the empty string.                         *)

C12_Dispatch ==
    [][ \A n \in ChatNames, m \in Messages, tok \in Spellings :
          (HasToken(m, tok) /\ Registered(tok) /\ WatcherMessage(n, m))
              => CallsIn(out') =
                    <<Called(ListenerOf(tok), getPlayer(n), ArgsAfter(m, tok))>> ]_vars

---------------------------------------------------------------------------
(* C13: a message in command shape whose token has no listener calls no       *)
(* listener, throws nothing and changes nothing: all its handler does is      *)
(* dispatch the message event, once.                                          *)

C13_UnknownCommand ==
    [][ \A n \in ChatNames, m \in Messages :
          (CommandShape(m) /\ ~Registered(UpToSpace(Tail(m))) /\ WatcherMessage(n, m))
              => /\ out' = <<Dispatched("message", getPlayer(n), m)>>
                 /\ UNCHANGED <<players, online, lists, cache, fetches, heap,
                                commands>> ]_vars

---------------------------------------------------------------------------
(* C14: a failed fetch is not retried by the World itself.  The rejection     *)
(* starts no fetch and is given to every caller awaiting it; while the failed *)
(* promise is the cached one, a get without refresh starts no fetch and       *)
(* reports the failure, and a fetch of the slot is started only by a get with *)
(* refresh, which does start one.                                             *)

C14_Rejection ==
    \A f \in DOMAIN fetches :
        /\ (~Settled(fetches, f) /\ fetches'[f].st = "err")
              => /\ Len(fetches') = Len(fetches)
                 /\ cache' = cache
        /\ \A c \in Clients :
              (clients[c].pc = "wait" /\ clients[c].fetch = f
                  /\ fetches[f].st = "err" /\ clients'[c] # clients[c])
                  => /\ fetches' = fetches
                     /\ cache' = cache
                     /\ clients'[c].pc = "idle"
                     /\ clients'[c].res.st = "err"
                     /\ clients'[c].res.fetch = f

C14_Later ==
    \A s \in Slots :
        SlotState(s) = "err"
            => /\ \A c \in Clients :
                     Calls(c, s, FALSE)
                         => /\ fetches' = fetches
                            /\ cache' = cache
                            /\ clients'[c].pc = "wait"
                            /\ clients'[c].fetch = cache[s]
               /\ \A c \in Clients :
                     (clients[c].pc = "wait" /\ clients[c].fetch = cache[s]
                         /\ Continue(c))
                         => /\ fetches' = fetches
                            /\ cache' = cache
                            /\ clients'[c].pc = "idle"
                            /\ clients'[c].res.st = "err"
                            /\ clients'[c].res.fetch = cache[s]
               /\ \A c \in Clients :
                     Calls(c, s, TRUE)
                         => /\ Len(fetches') = Len(fetches) + 1
                            /\ fetches'[Len(fetches')].slot = s
                            /\ fetches'[Len(fetches')].st = "pending"
                            /\ cache'[s] = Len(fetches')
               /\ (Len(fetches') > Len(fetches) /\ fetches'[Len(fetches')].slot = s)
                     => \E c \in Clients : Calls(c, s, TRUE)

\* C14: no step retries a failed fetch; only a get with refresh fetches again
C14_NoAutoRetry == [][C14_Rejection /\ C14_Later]_vars

\* the constructor's overview fetch has failed; one caller holds that failure,
\* the other awaits the fetch its refresh has started
C14_Witness ==
    /\ fetches[1].st = "err"
    /\ clients[1].pc = "idle" /\ clients[1].res.st = "err" /\ clients[1].res.fetch = 1
    /\ clients[2].pc = "wait" /\ clients[2].fetch = cache["overview"]
    /\ fetches[cache["overview"]].prevSt = "err"
    /\ fetches[cache["overview"]].st = "pending"

---------------------------------------------------------------------------
(* C15: the step in which an overview fetch succeeds appends to the online    *)
(* array the fetched names it does not hold, each once, keeping what it holds *)
(* in place, and gives no caller the result; the callers are given it by      *)
(* later steps, which merge nothing; no other step of the World (a get served *)
(* from the cache included) changes the online array.                         *)

C15_MergeOnce ==
    [][ /\ \A f \in DOMAIN fetches :
              (fetches[f].slot = "overview" /\ ~Settled(fetches, f)
                  /\ fetches'[f].st = "ok")
                  => LET xs == fetches'[f].val.online
                     IN  /\ Len(online') >= Len(online)
                         /\ SubSeq(online', 1, Len(online)) = online
                         /\ Elems(online') = Elems(online) \cup Elems(xs)
                         /\ Len(online') =
                               Len(online) + Cardinality(Elems(xs) \ Elems(online))
                         /\ NoDuplicates(online) => NoDuplicates(online')
                         /\ Elems(xs) \subseteq Elems(online')
                         /\ \A c \in Clients :
                               /\ clients[c].res.fetch # f
                               /\ clients'[c] = clients[c]
        /\ \A c \in Clients :
              (clients'[c].res # clients[c].res /\ clients'[c].res.slot = "overview")
                  => /\ fetches[clients'[c].res.fetch].st \in {"ok", "err"}
                     /\ fetches' = fetches
                     /\ online' = online
        /\ \/ \E f \in DOMAIN fetches : fetches'[f].st # fetches[f].st
           \/ \E n \in Names, ip \in Addresses : WatcherJoin(n, ip)
           \/ \E n \in Names : WatcherLeave(n)
           \/ online' = online ]_vars

\* two callers were given the overview of a fetch whose names were merged into
\* an online array that held one of them already
C15_Witness ==
    \E f \in DOMAIN fetches :
        /\ fetches[f].slot = "overview" /\ fetches[f].st = "ok"
        /\ \A c \in Clients : clients[c].res.fetch = f
        /\ online = <<BO, ST>>
        /\ fetches[f].val.online = <<ST, BO>>

---------------------------------------------------------------------------
(* C19: while a settled promise is the cached one, a get without refresh      *)
(* starts no fetch and awaits that promise, and what its caller is then given *)
(* is that promise's outcome: its failure, or the value it resolved with.     *)

C19_OutcomeCached ==
    [][ /\ \A c \in Clients, s \in Slots :
              (cache[s] # 0 /\ Settled(fetches, cache[s]) /\ Calls(c, s, FALSE))
                  => /\ fetches' = fetches
                     /\ cache' = cache
                     /\ clients'[c].pc = "wait"
                     /\ clients'[c].fetch = cache[s]
        /\ \A c \in Clients :
              (clients[c].pc = "wait" /\ Continue(c))
                  => LET f == clients[c].fetch
                         res == clients'[c].res
                     IN  /\ fetches' = fetches
                         /\ cache' = cache
                         /\ clients'[c].pc = "idle"
                         /\ res.fetch = f
                         /\ res.st = fetches[f].st
                         /\ res.st = "ok" => Visible(res, heap') = fetches[f].val ]_vars

---------------------------------------------------------------------------
(* C16: the handlers run one event at a time, in the order of the events: the *)
(* view a message event carries, and the view given to the listener of its    *)
(* command, count every join of the sender's identity that came before the    *)
(* message, the one just before it included.                                  *)

C16_JoinThenMessage ==
    (recent # << >> /\ recent[Len(recent)].kind = "message")
        => LET n == recent[Len(recent)].name
           IN  /\ out # << >> /\ out[1].kind = "message"
               /\ \A i \in DOMAIN out :
                     out[i].kind \in {"message", "call"}
                         => out[i].player.info.joins = InitialJoins(n) + Len(JoinsOf(n))

\* "St" joined for the second time and, as the next event, "ST" sent a command:
\* the message event and the listener both see two joins
C16_Witness ==
    /\ Len(recent) = 2
    /\ recent[1] = [kind |-> "join", name |-> St]
    /\ recent[2] = [kind |-> "message", name |-> ST]
    /\ Len(joinLog) = 2
    /\ Len(out) = 2
    /\ out[1].player.info.joins = 2
    /\ out[2].kind = "call" /\ out[2].player.info.joins = 2

---------------------------------------------------------------------------
(* C17: getPlayer returns a view for every name and never writes the player   *)
(* registry; for a name with no record it is the view of the zero-valued      *)
(* record, and every view refers to the lists this._lists refers to.          *)

\* the lists the World last loaded, or the empty lists it starts with
LoadedLists ==
    IF lists = 0 THEN [fld \in ListFields |-> << >>] ELSE fetches[lists].val
\* the lists a view reads its memberships from
ViewLists(view, h) == [fld \in ListFields |-> h[ListsRef(view.lists, fld)]]

C17_GetPlayerTotal ==
    [][ \A n \in QueryNames :
          GetPlayer(n)
              => /\ players' = players
                 /\ ret'.op = "getPlayer" /\ ~ret'.threw
                 /\ SameIgnoringCase(ret'.value.name, n)
                 /\ ViewLists(ret'.value, heap') = LoadedLists
                 /\ (\A k \in DOMAIN players : ~SameIgnoringCase(k, n))
                       => /\ ret'.value.info.joins = 0
                          /\ ret'.value.info.ip = ""
                          /\ ret'.value.info.ips = << >>
                          /\ ~isOwner(ret'.value) ]_vars

\* getPlayer("XX") has returned the zero-valued view with the loaded lists,
\* other players having joined, and the registry has no record of XX
C17_Witness ==
    /\ ret.op = "getPlayer" /\ ret.value.name = XX
    /\ ret.value.info = ZeroInfo
    /\ lists = 2 /\ ViewLists(ret.value, heap) = RemoteInit
    /\ joinLog # << >>
    /\ XX \notin DOMAIN players

---------------------------------------------------------------------------
(* C18: removeCommand never throws, removes the registration of its token     *)
(* under whatever letter case it is given, and leaves every other             *)
(* registration as it was (all of them when the token is not registered);     *)
(* addCommand of a token that is not registered does not throw and registers  *)
(* the listener, so a removed token can be registered again.                  *)

C18_RemoveIdempotent ==
    [][ /\ \A tok \in Tokens :
              removeCommand(tok)
                  => /\ ret'.op = "removeCommand" /\ ~ret'.threw
                     /\ \A k \in DOMAIN commands' : ~SameIgnoringCase(k, tok)
                     /\ \A k \in DOMAIN commands :
                           ~SameIgnoringCase(k, tok)
                               => k \in DOMAIN commands' /\ commands'[k] = commands[k]
                     /\ ~Registered(tok) => commands' = commands
        /\ \A tok \in Tokens, h \in Listeners :
              (~Registered(tok) /\ addCommand(tok, h))
                  => /\ ~ret'.threw
                     /\ \E k \in DOMAIN commands' :
                           SameIgnoringCase(k, tok) /\ commands'[k] = h ]_vars

\* "/ST" called h1, and h2 is now the listener of ST, registered by the last
\* call without an error: ST was removed and registered again in between,
\* the registration of BO staying
C18_Witness ==
    /\ ret.op = "addCommand" /\ ~ret.threw
    /\ DOMAIN commands = {ST, BO}
    /\ commands[ST] = "h2"
    /\ Len(out) = 2
    /\ out[1].message = <<"/", "S", "T">>
    /\ out[2].kind = "call" /\ out[2].listener = "h1"

---------------------------------------------------------------------------
(* C20: the step in which a lists fetch succeeds makes the fetched lists the  *)
(* ones every view built by getPlayer reads its memberships from, and no      *)
(* other step changes them.                                                   *)

C20_ListsSnapshot ==
    [][ /\ \A f \in DOMAIN fetches :
              (fetches[f].slot = "lists" /\ fetches[f].st # "ok"
                  /\ fetches'[f].st = "ok")
                  => \A n \in QueryNames :
                        ViewLists(getPlayer(n)', heap') = fetches'[f].val
        /\ \/ \E f \in DOMAIN fetches : fetches[f].st # "ok" /\ fetches'[f].st = "ok"
           \/ \A n \in QueryNames :
                 ViewLists(getPlayer(n)', heap') = ViewLists(getPlayer(n), heap) ]_vars

\* the lists were loaded twice, a setLists in between: the views read the
\* second load, whose adminlist differs from the first's
C20_Witness ==
    /\ lists > 2
    /\ fetches[2].st = "ok" /\ fetches[lists].st = "ok"
    /\ fetches[lists].val # fetches[2].val
    /\ ViewLists(getPlayer(ST), heap) = fetches[lists].val
    /\ ViewLists(getPlayer(ST), heap).adminlist = <<ST>>

---------------------------------------------------------------------------
(* C21: every key of the player registry is a canonical name, so no two keys  *)
(* name one identity, and the players accessor returns for each key the view  *)
(* of the record at that key.                                                 *)

LowerCase == {"s", "t", "b", "o"}

C21_CanonicalKeys ==
    /\ \A k \in DOMAIN players : \A i \in DOMAIN k : k[i] \notin LowerCase
    /\ \A k, m \in DOMAIN players : SameIgnoringCase(k, m) => k = m
    /\ \A k \in DOMAIN players : playersAccessor[k].info = players[k]

---------------------------------------------------------------------------
(* C30: a record taken from the registry keeps showing the joins, the last    *)
(* address and the addresses it had when it was taken, whatever joins and     *)
(* owner markings follow.                                                     *)

C30_RecordsReplaced ==
    ret.op = "getPlayer" => recordNow(ret.value) = ret.value.info

---------------------------------------------------------------------------
(* Events, as the subscribers of the World see them *)

\* the events among what a handler did
DispatchesIn(o) == SelectSeq(o, LAMBDA e : e.kind \in {"join", "leave", "message"})

\* the step is the handling of an event of the watcher
WatcherStep ==
    \/ \E n \in Names, ip \in Addresses : WatcherJoin(n, ip)
    \/ \E n \in Names : WatcherLeave(n)
    \/ \E n \in Names, m \in Messages : WatcherMessage(n, m)

\* an overview fetch succeeds in the step
OverviewLands(f) ==
    fetches[f].slot = "overview" /\ ~Settled(fetches, f) /\ fetches'[f].st = "ok"

---------------------------------------------------------------------------
(* C22: the handling of each event of the watcher dispatches one event, of    *)
(* the same kind and about the same player, within that handling, so in the   *)
(* order of the watcher's events; no other step (a get, a refresh, a fetch    *)
(* settling) dispatches anything.                                             *)

C22_OneDelivery ==
    [][ /\ \A n \in Names, ip \in Addresses :
              WatcherJoin(n, ip)
                  => /\ Len(DispatchesIn(out')) = 1
                     /\ DispatchesIn(out')[1].kind = "join"
                     /\ SameIgnoringCase(DispatchesIn(out')[1].player.name, n)
        /\ \A n \in Names :
              WatcherLeave(n)
                  => /\ Len(DispatchesIn(out')) = 1
                     /\ DispatchesIn(out')[1].kind = "leave"
                     /\ SameIgnoringCase(DispatchesIn(out')[1].player.name, n)
        /\ \A n \in Names, m \in EventMessages :
              WatcherMessage(n, m)
                  => /\ Len(DispatchesIn(out')) = 1
                     /\ DispatchesIn(out')[1].kind = "message"
                     /\ DispatchesIn(out')[1].message = m
                     /\ SameIgnoringCase(DispatchesIn(out')[1].player.name, n)
        /\ out' = out \/ WatcherStep ]_vars

\* a join and then a message were handled while a refresh of the overview was
\* outstanding: the message's handler dispatched one message event
C22_Witness ==
    /\ Len(recent) = 2
    /\ recent[1].kind = "join" /\ recent[2].kind = "message"
    /\ Len(DispatchesIn(out)) = 1 /\ out[1].kind = "message"
    /\ Len(fetches) = 3
    /\ fetches[1].st = "ok" /\ fetches[3].slot = "overview" /\ fetches[3].st = "pending"

---------------------------------------------------------------------------
(* C23: the view the join event carries counts this join, has the join's      *)
(* address as its last address and holds it among its addresses.              *)

C23_JoinPublishedAfterUpdate ==
    (recent # << >> /\ recent[Len(recent)].kind = "join")
        => LET n  == recent[Len(recent)].name
               ip == joinLog[Len(joinLog)][2]
           IN  /\ Len(out) = 1 /\ out[1].kind = "join"
               /\ out[1].player.info.joins = InitialJoins(n) + Len(JoinsOf(n))
               /\ out[1].player.info.ip = ip
               /\ Includes(out[1].player.info.ips, ip)

\* BO, known from storage with one join from 1.1, joined from 2.2: the event
\* carries two joins, the address 2.2 and both addresses
C23_Witness ==
    /\ Stored(BO)
    /\ joinLog = << <<BO, "2.2">> >>
    /\ Len(out) = 1 /\ out[1].kind = "join"
    /\ out[1].player.info.joins = 2
    /\ out[1].player.info.ip = "2.2"
    /\ out[1].player.info.ips = <<"1.1", "2.2">>

---------------------------------------------------------------------------
(* C24: the handlers of leave and message events leave the player registry as *)
(* it is; a step that changes it is the handling of a join or the success of  *)
(* an overview fetch; no step removes a record or lowers a count of joins.    *)

C24_RegistryFrame ==
    [][ /\ players' = players \/ \A n \in Names : ~WatcherLeave(n)
        /\ players' = players \/ \A n \in Names, m \in Messages : ~WatcherMessage(n, m)
        /\ players' # players
              => \/ \E n \in Names, ip \in Addresses : WatcherJoin(n, ip)
                 \/ \E f \in DOMAIN fetches : OverviewLands(f)
        /\ \A k \in DOMAIN players :
              k \in DOMAIN players' /\ players'[k].joins >= players[k].joins ]_vars

\* BO joined, left and sent a command that called its listener: the registry
\* holds the one join
C24_Witness ==
    /\ Len(joinLog) = 1
    /\ Len(recent) = 2
    /\ recent[1] = [kind |-> "leave", name |-> BO]
    /\ recent[2] = [kind |-> "message", name |-> BO]
    /\ Len(out) = 2 /\ out[2].kind = "call"
    /\ BO \in DOMAIN players /\ players[BO].joins = 1
    /\ out[2].player.info = players[BO]

---------------------------------------------------------------------------
(* C27: a record whose owner flag is set keeps it in every step; the success  *)
(* of an overview fetch leaves the joins, the last address and the addresses  *)
(* of every record as they are, and changes nothing at all when a fetch       *)
(* reporting the same owner has succeeded before.                             *)

C27_OwnerKept ==
    [][ /\ \A k \in DOMAIN players :
              players[k].owner => k \in DOMAIN players' /\ players'[k].owner
        /\ \A f \in DOMAIN fetches :
              OverviewLands(f)
                  => /\ \A k \in DOMAIN players :
                           /\ players'[k].joins = players[k].joins
                           /\ players'[k].ip = players[k].ip
                           /\ players'[k].ips = players[k].ips
                     /\ (\E g \in DOMAIN fetches :
                            /\ fetches[g].slot = "overview" /\ fetches[g].st = "ok"
                            /\ fetches[g].val.owner = fetches'[f].val.owner)
                           => players' = players ]_vars

\* two fetches reported two owners, BO having joined before it was marked and
\* again after: both records have the flag, BO's with its two joins
C27_Witness ==
    /\ \E f, g \in DOMAIN fetches :
          /\ f < g
          /\ fetches[f].slot = "overview" /\ fetches[f].st = "ok"
          /\ fetches[g].slot = "overview" /\ fetches[g].st = "ok"
          /\ fetches[f].val.owner = BO /\ fetches[g].val.owner = St
    /\ BO \in DOMAIN players /\ players[BO].owner /\ players[BO].joins = 2
    /\ St \in DOMAIN players /\ players[St].owner
    /\ recent # << >> /\ recent[Len(recent)].kind = "join"

---------------------------------------------------------------------------
(* C25: a message that does not start with the prefix followed at once by a   *)
(* character other than a space ("/" alone, "/ st", "x /st") calls no         *)
(* listener, whatever is registered, and throws nothing; its message event is *)
(* dispatched all the same, as is that of every message.                      *)

C25_CommandShapeOnly ==
    [][ \A n \in ChatNames, m \in Messages :
          WatcherMessage(n, m)
              => /\ out'[1] = Dispatched("message", getPlayer(n), m)
                 /\ ~CommandShape(m) => Len(out') = 1
                 /\ CallsIn(out') # << >> => CommandShape(m) ]_vars

\* a listener being registered for ST, the message "/ st" had its event
\* dispatched and nothing else
C25_Witness ==
    /\ Registered(ST)
    /\ recent # << >> /\ recent[Len(recent)].kind = "message"
    /\ Len(out) = 1
    /\ out[1].kind = "message" /\ out[1].message = <<"/", " ", "s", "t">>

---------------------------------------------------------------------------
(* C28: the World as constructed has one overview fetch and one lists fetch   *)
(* outstanding and has fetched no logs; while they are outstanding the events *)
(* of the watcher can be handled and are handled in full, and a getOverview() *)
(* or getLists() awaits the constructor's fetch and starts none.              *)

Constructed ==
    /\ Len(fetches) = 2
    /\ fetches[1].slot = "overview" /\ fetches[1].st = "pending"
    /\ fetches[2].slot = "lists" /\ fetches[2].st = "pending"
    /\ cache["overview"] = 1 /\ cache["lists"] = 2 /\ cache["logs"] = 0
    /\ \A c \in Clients : clients[c].pc = "idle"

C28_Construction ==
    /\ Constructed
    /\ [][ /\ (~Settled(fetches, 1) /\ ~Settled(fetches, 2))
                 => /\ ENABLED WatcherLeave(BO)
                    /\ ENABLED WatcherMessage(BO, <<"/", "S", "T">>)
                    /\ Len(joinLog) < MaxJoins => ENABLED WatcherJoin(BO, "2.2")
                    /\ WatcherJoin(BO, "2.2")
                          => /\ getPlayer(BO)'.info.joins = getPlayer(BO).info.joins + 1
                             /\ DispatchesIn(out') =
                                   <<Dispatched("join", getPlayer(BO)', << >>)>>
                             /\ UNCHANGED <<fetches, cache, clients>>
           /\ \A c \in Clients :
                 (~Settled(fetches, 1) /\ getOverview(c, FALSE))
                     => /\ UNCHANGED <<fetches, cache>>
                        /\ clients'[c].pc = "wait" /\ clients'[c].fetch = 1
           /\ \A c \in Clients :
                 (~Settled(fetches, 2) /\ getLists(c, FALSE))
                     => /\ UNCHANGED <<fetches, cache>>
                        /\ clients'[c].pc = "wait" /\ clients'[c].fetch = 2 ]_vars

\* neither of the constructor's fetches has settled; a join and a message were
\* handled, and one caller awaits each of the two fetches, the only ones made
C28_Witness ==
    /\ Len(fetches) = 2
    /\ ~Settled(fetches, 1) /\ ~Settled(fetches, 2)
    /\ clients[1].pc = "wait" /\ clients[1].fetch = 1
    /\ clients[2].pc = "wait" /\ clients[2].fetch = 2
    /\ Len(recent) = 2 /\ recent[1].kind = "join" /\ recent[2].kind = "message"
    /\ BO \in DOMAIN players /\ players[BO].joins = 1

---------------------------------------------------------------------------
(* C29: a call of a get operation, and the settling of a fetch, change        *)
(* nothing of the other two slots: not the promise they cache, not the        *)
(* fetches made for them, not the values those resolved with; this._lists     *)
(* changes only when a lists fetch succeeds; the caller of a get served from  *)
(* the cache can be given its result whatever the state of the other slots'   *)
(* fetches, which the delivery leaves as they are; and while a fetch of any   *)
(* slot is outstanding every event of the watcher can be handled, and is      *)
(* handled in full in its own step, which changes no slot and no caller.      *)

\* what belongs to slot s: its cached promise, its fetches, their arrays
SlotPart(s) ==
    [cached |-> cache[s],
     made   |-> [f \in {g \in DOMAIN fetches : fetches[g].slot = s} |-> fetches[f]],
     arrays |-> [a \in {x \in DOMAIN heap : x[1] = "f" /\ fetches[x[2]].slot = s} |->
                    heap[a]]]

\* the caller of a get on a settled slot can go on while a fetch of another
\* slot is outstanding
C29_NotDelayed ==
    \A c \in Clients :
        (/\ clients[c].pc = "wait"
         /\ Settled(fetches, clients[c].fetch)
         /\ \E t \in Slots \ {fetches[clients[c].fetch].slot} : InFlight(t) # {})
            => ENABLED Continue(c)

\* the events of the watcher can be handled while fetches are outstanding
C29_EventsNotDelayed ==
    (\E s \in Slots : InFlight(s) # {})
        => /\ ENABLED WatcherLeave(BO)
           /\ \A m \in EventMessages : ENABLED WatcherMessage(BO, m)
           /\ Len(joinLog) < MaxJoins => ENABLED WatcherJoin(BO, "2.2")

\* the handling of an event while a fetch is outstanding: the registry is
\* updated and the event dispatched in that step; the cache, the fetches, the
\* arrays, the callers and this._lists are left as they are
C29_EventHandled ==
    ((\E s \in Slots : InFlight(s) # {}) /\ SlotsEvent)
        => /\ Len(DispatchesIn(out')) = 1
           /\ recent'[Len(recent')].kind = DispatchesIn(out')[1].kind
           /\ WatcherJoin(BO, "2.2")
                 => getPlayer(BO)'.info.joins = getPlayer(BO).info.joins + 1
           /\ UNCHANGED <<cache, fetches, heap, clients, lists>>

C29_SlotsIndependent ==
    /\ []C29_NotDelayed
    /\ []C29_EventsNotDelayed
    /\ [][ /\ C29_EventHandled
           /\ \A c \in Clients, s \in Slots, r \in BOOLEAN :
                 (clients'[c] # clients[c] /\ Calls(c, s, r))
                     => \A t \in Slots \ {s} : SlotPart(t)' = SlotPart(t)
           /\ \A f \in DOMAIN fetches :
                 fetches'[f] # fetches[f]
                     => \A t \in Slots \ {fetches[f].slot} : SlotPart(t)' = SlotPart(t)
           /\ lists' # lists
                 => \E f \in DOMAIN fetches :
                       fetches[f].slot = "lists" /\ fetches[f].st # "ok"
                          /\ fetches'[f].st = "ok"
           /\ \A c \in Clients :
                 (clients[c].pc = "wait" /\ clients'[c] # clients[c] /\ Continue(c))
                     => /\ clients'[c].pc = "idle"
                        /\ clients'[c].res.fetch = clients[c].fetch
                        /\ \A t \in Slots : SlotPart(t)' = SlotPart(t) ]_vars

\* the logs were fetched and given to their caller while the constructor's
\* overview fetch is outstanding and its lists fetch has failed; each slot
\* caches its own promise; a join and a message of the watcher were handled
\* meanwhile
C29_Witness ==
    /\ Len(fetches) = 3
    /\ fetches[1].st = "pending"
    /\ fetches[2].st = "err"
    /\ fetches[3].slot = "logs" /\ fetches[3].st = "ok"
    /\ cache["overview"] = 1 /\ cache["lists"] = 2 /\ cache["logs"] = 3
    /\ clients[1].pc = "idle" /\ clients[1].res.fetch = 3 /\ clients[1].res.st = "ok"
    /\ Len(recent) = 2 /\ recent[1].kind = "join" /\ recent[2].kind = "message"
    /\ BO \in DOMAIN players /\ players[BO].joins = 1

---------------------------------------------------------------------------
(* C26: no operation of the World takes a name out of this._online. Apart     *)
(* from the watcher's own removal of the player who left, every step leaves   *)
(* the array as it was or adds names at its end; in particular the step of a  *)
(* caller who changes the array that world.online gave it leaves it as it was.*)

IsPrefix(s, u) == Len(s) <= Len(u) /\ SubSeq(u, 1, Len(s)) = s

C26_OnlineOnlyGrows ==
    [][ /\ \/ IsPrefix(online, online')
           \/ WatcherLeave(BO) /\ online' = Without(online, BO)
        /\ \A op \in {"push", "shift"} : MutateOnlineResult(op) => online' = online
        /\ GetOnline => ret'.value.arr = online /\ online' = online ]_vars

\* a caller changed the array world.online gave it, which now differs from
\* this._online; this._online holds the player who joined and the one a
\* fetched overview reported
C26_Witness ==
    /\ ret.op = "online" /\ ret.value.mutated
    /\ ret.value.arr # online
    /\ Len(online) = 2 /\ online[1] = BO
    /\ \E f \in DOMAIN fetches : fetches[f].slot = "overview" /\ fetches[f].st = "ok"

---------------------------------------------------------------------------
(* C31: when no lists fetch is outstanding and the promise the lists slot     *)
(* holds has succeeded, the lists this._lists refers to, which getPlayer      *)
(* hands to its views, hold what getLists() returns copies of.                *)

C31_SnapshotIsCached ==
    (InFlight("lists") = {} /\ SlotState("lists") = "ok")
        => \A fld \in ListFields :
              heap[ListsRef(lists, fld)] = heap[FetchArr(cache["lists"], fld)]

---------------------------------------------------------------------------
(* C32: when two setLists calls that name different lists have both resolved, *)
(* the set of lists last submitted to the server holds the lists of both.     *)

C32_NoLostUpdate ==
    \A c, d \in Clients :
        (/\ c # d
         /\ clients[c].pc = "idle" /\ clients[c].setres = "ok"
         /\ clients[d].pc = "idle" /\ clients[d].setres = "ok"
         /\ DOMAIN clients[c].partial \cap DOMAIN clients[d].partial = {})
            => \A fld \in DOMAIN clients[c].partial :
                  remoteLists[fld] = clients[c].partial[fld]

---------------------------------------------------------------------------
(* C33: the handler of a message in command shape whose token has a listener  *)
(* first dispatches the message event and then calls the listener, both       *)
(* within the handling of that message: they are the two things the handler   *)
(* does, in that order, before any other event is handled.                    *)

C33_EventThenListener ==
    [][ \A n \in ChatNames, m \in Messages :
          (CommandShape(m) /\ Registered(UpToSpace(Tail(m))) /\ WatcherMessage(n, m))
              => /\ Len(out') = 2
                 /\ out'[1] = Dispatched("message", getPlayer(n), m)
                 /\ out'[2].kind = "call"
                 /\ out'[2].listener = ListenerOf(UpToSpace(Tail(m)))
                 /\ recent'[Len(recent')] = [kind |-> "message", name |-> n] ]_vars

---------------------------------------------------------------------------
(* C34: for every message in command shape the token and the remainder are    *)
(* extracted, so that the handler throws nothing and goes on to look the      *)
(* token up.                                                                  *)

C34_ExtractionSucceeds ==
    [][ \A n \in ChatNames, m \in Messages :
          (CommandShape(m) /\ WatcherMessage(n, m))
              => /\ match(m).found
                 /\ \A i \in DOMAIN out' : out'[i].kind # "TypeError" ]_vars

====
